---- MODULE Spec2Model ----
(***************************************************************************)
(* Model of the multer storage engine for IBM Cloud Object Storage         *)
(* (src/index.ts): parameter validation, construction of the engine by the *)
(* three exported factories, _handleFile and _removeFile.  The multipart   *)
(* middleware (caller) and the object-storage SDK (callee) are the         *)
(* environment: their inputs, events and outcomes are drawn from small     *)
(* sets.                                                                   *)
(***************************************************************************)
EXTENDS Integers, Sequences, FiniteSets, TLC

\* ------------------------------------------------------------------ bounds
MaxCalls == 2
MaxProgress == 2
MaxRemoves == 1

\* ------------------------------------------------------- JavaScript values
Undefined == "<undefined>"
Null == "<null>"

\* !v for the string-valued options: undefined, null and "" are falsy.
Falsy(v) == v \in {Undefined, Null, ""}

\* a || b
OrElse(a, b) == IF Falsy(a) THEN b ELSE a

\* ------------------------------------------------------------------ inputs
Factories == {"default", "cosSingleUpload", "cosMultipleUpload"}
GetFilenameFn == "getFilename"
UserKeyFn == "opts.key"

\* The options objects a caller may pass to a factory.
AllOpts ==
    [ endpoint : {Undefined, "", "ep"},
      bucket : {Undefined, "", "b1", "b2"},
      apiKeyId : {"", "ak"},
      serviceInstanceId : {Undefined, "si"},
      signatureVersion : {Undefined, "v4"},
      key : {Undefined, UserKeyFn},
      fieldName : {Undefined, "avatar"} ]

\* The options the running engines of Spec are constructed from.
EngineOpts ==
    { o \in AllOpts : /\ o.endpoint = "ep"
                      /\ o.apiKeyId = "ak"
                      /\ o.serviceInstanceId = "si"
                      /\ o.bucket = "b1"
                      /\ o.signatureVersion = Undefined
                      /\ o.fieldName = Undefined }

Reqs == {"r1", "r2"}
\* The file of the n-th _handleFile call: every call has its own stream.
FileOf(n) == "f" \o ToString(n)
Totals == {0, 1, 2}
SdkErrors == {"AccessDenied", "MissingRequiredParameter"}
CallbackError == "CallbackThrew"

VARIABLES
    ctor,        \* the factory call made: <<>> or <<[factory, opts]>>
    thrown,      \* what that call threw: the list of StorageParamError
    clients,     \* the SDK clients created so far (their configuration)
    engine,      \* <<>> or <<the CosStorage instance>>
    middleware,  \* <<>> or <<what the factory returned around the engine>>
    calls,       \* the _handleFile calls, in the order they were made
    sdkUploads,  \* the upload requests the SDK received
    removes,     \* the _removeFile calls
    sdkDeletes   \* the deleteObject requests the SDK received

vars == <<ctor, thrown, clients, engine, middleware, calls, sdkUploads,
          removes, sdkDeletes>>

opVars == <<calls, sdkUploads, removes, sdkDeletes>>
ctorVars == <<ctor, thrown, clients, engine, middleware>>

\* ------------------------------------------------------------ construction
StorageParamError(param) == [param |-> param]

\* validateStorageParams with the bucket check left out.
validateStorageParams_NoBucketCheck(params) ==
    (IF Falsy(params.endpoint) THEN <<StorageParamError("endpoint")>> ELSE <<>>)
    \o (IF Falsy(params.apiKeyId) THEN <<StorageParamError("apiKeyId")>> ELSE <<>>)
    \o (IF Falsy(params.serviceInstanceId)
        THEN <<StorageParamError("serviceInstanceId")>> ELSE <<>>)

validateStorageParams(params) ==
    (IF Falsy(params.endpoint) THEN <<StorageParamError("endpoint")>> ELSE <<>>)
    \o (IF Falsy(params.bucket) THEN <<StorageParamError("bucket")>> ELSE <<>>)
    \o (IF Falsy(params.apiKeyId) THEN <<StorageParamError("apiKeyId")>> ELSE <<>>)
    \o (IF Falsy(params.serviceInstanceId)
        THEN <<StorageParamError("serviceInstanceId")>> ELSE <<>>)

\* new ibm.S3({...}) inside the constructor: the configuration handed over.
NewS3(opts) ==
    [ endpoint |-> opts.endpoint,
      apiKeyId |-> opts.apiKeyId,
      serviceInstanceId |-> opts.serviceInstanceId,
      signatureVersion |-> opts.signatureVersion ]

\* new CosStorage(opts), once validation has passed.
NewCosStorage(opts) ==
    [ bucket |-> opts.bucket,
      getObjectKey |-> OrElse(opts.key, GetFilenameFn),
      cos |-> NewS3(opts) ]

\* The options object cosSingleUpload and cosMultipleUpload build for the
\* constructor.
WrappedOpts(params) ==
    [ params EXCEPT !.signatureVersion = OrElse(params.signatureVersion, "iam") ]

CtorOpts(factory, params) ==
    IF factory = "default" THEN params ELSE WrappedOpts(params)

\* multer({storage}).single(fieldName || "file") / .array(fieldName || "files")
Middleware(factory, params) ==
    CASE factory = "cosSingleUpload" ->
            <<[mode |-> "single", fieldName |-> OrElse(params.fieldName, "file")]>>
      [] factory = "cosMultipleUpload" ->
            <<[mode |-> "array", fieldName |-> OrElse(params.fieldName, "files")]>>
      [] OTHER -> <<>>

\* The whole factory call: validation (the wrappers validate first, the
\* constructor validates again), then the constructor, then the wrapper.
Build(factory, params) ==
    LET errors == validateStorageParams(params)
        errors2 == validateStorageParams(CtorOpts(factory, params))
    IN  IF errors # <<>>
        THEN [thrown |-> errors, clients |-> <<>>, engine |-> <<>>,
              middleware |-> <<>>]
        ELSE IF errors2 # <<>>
        THEN [thrown |-> errors2, clients |-> <<>>, engine |-> <<>>,
              middleware |-> <<>>]
        ELSE [thrown |-> <<>>,
              clients |-> <<NewS3(CtorOpts(factory, params))>>,
              engine |-> <<NewCosStorage(CtorOpts(factory, params))>>,
              middleware |-> Middleware(factory, params)]

Construct(factory, params) ==
    /\ ctor = <<>>
    /\ ctor' = <<[factory |-> factory, opts |-> params]>>
    /\ LET b == Build(factory, params)
       IN  /\ thrown' = b.thrown
           /\ clients' = b.clients
           /\ engine' = b.engine
           /\ middleware' = b.middleware
    /\ UNCHANGED opVars

InitConstruct ==
    /\ ctor = <<>>
    /\ thrown = <<>>
    /\ clients = <<>>
    /\ engine = <<>>
    /\ middleware = <<>>
    /\ calls = <<>>
    /\ sdkUploads = <<>>
    /\ removes = <<>>
    /\ sdkDeletes = <<>>

NextConstruct ==
    \E factory \in Factories, params \in AllOpts : Construct(factory, params)

SpecConstruct == InitConstruct /\ [][NextConstruct]_vars

\* -------------------------------------------------------------- _handleFile
\* The caller's key function (opts.key): some function of request and file.
UserKey(req, file) == "key:" \o req \o "/" \o file

\* buf.toString("hex"): two hexadecimal digits for every byte.
HexDigits ==
    <<"0", "1", "2", "3", "4", "5", "6", "7", "8", "9", "a", "b", "c", "d",
      "e", "f">>

ByteToHex(b) == HexDigits[(b \div 16) + 1] \o HexDigits[(b % 16) + 1]

RECURSIVE ToHex(_)
ToHex(buf) ==
    IF buf = <<>> THEN "" ELSE ByteToHex(Head(buf)) \o ToHex(Tail(buf))

\* crypto.randomBytes(16, ...): the buffers it may deliver.
RandomByteCount == 16
RandomBuffers == { [n \in 1..RandomByteCount |-> b] : b \in {0, 171, 255} }

\* getFilename(req, file, cb): starts crypto.randomBytes and returns nothing.
getFilename(req, file, cb) ==
    [returns |-> Undefined, randomBytes |-> <<[cb |-> cb]>>]

\* The function getFilename hands to crypto.randomBytes: it calls cb with the
\* hexadecimal name; calling an undefined cb throws a TypeError.
getFilenameCallback(cb, err, buf) ==
    IF cb = Undefined
    THEN [threw |-> TRUE, args |-> <<>>]
    ELSE IF Falsy(err)
    THEN [threw |-> FALSE, args |-> <<err, ToHex(buf)>>]
    ELSE [threw |-> FALSE, args |-> <<err, Null>>]

\* this.getObjectKey(req, file): two arguments, so getFilename's cb is
\* undefined.
getObjectKey(e, req, file) ==
    IF e.getObjectKey = UserKeyFn
    THEN [returns |-> UserKey(req, file), randomBytes |-> <<>>]
    ELSE getFilename(req, file, Undefined)

\* UploadParams naming the object after the file instead of the key.
UploadParams_KeyFromFile(e, key, file) ==
    [Bucket |-> e.bucket, Key |-> file, Body |-> "stream:" \o file]

UploadParams(e, key, file) ==
    [Bucket |-> e.bucket, Key |-> key, Body |-> "stream:" \o file]

\* What the SDK may answer to an upload: the object as requested, or as the
\* service names it.  The SDK validates the request first, so an upload
\* without a Key is never stored.
SdkUploadResponses(params) ==
    IF params.Key = Undefined THEN {}
    ELSE { [ETag |-> "e1", Location |-> "loc1", Key |-> params.Key,
            Bucket |-> params.Bucket],
           [ETag |-> "e2", Location |-> "loc2", Key |-> "k-sdk",
            Bucket |-> "b-sdk"] }

\* The errors the SDK may reject an upload with.
SdkUploadErrors(params) ==
    IF params.Key = Undefined THEN {"MissingRequiredParameter"}
    ELSE {"AccessDenied"}

TotalProgress(cs) ==
    LET RECURSIVE Sum(_)
        Sum(i) == IF i = 0 THEN 0 ELSE Len(cs[i].progress) + Sum(i - 1)
    IN  Sum(Len(cs))

\* _handleFile up to its return: key, upload request, handlers registered.
HandleFile(req) ==
    /\ engine # <<>>
    /\ Len(calls) < MaxCalls
    /\ LET e == engine[1]
           file == FileOf(Len(calls) + 1)
           k == getObjectKey(e, req, file)
           params == UploadParams(e, k.returns, file)
       IN  /\ sdkUploads' = Append(sdkUploads,
                                   [call |-> Len(calls) + 1, params |-> params])
           /\ calls' = Append(calls,
                  [ req |-> req, file |-> file, key |-> k.returns,
                    fileSize |-> 0, pc |-> "uploading",
                    randomBytes |-> k.randomBytes, thrownByRandomBytes |-> FALSE,
                    progress |-> <<>>, res |-> <<>>, err |-> Null,
                    cbLog |-> <<>> ])
    /\ UNCHANGED <<ctorVars, removes, sdkDeletes>>

\* crypto.randomBytes completes and runs the function it was given; what
\* that function throws escapes to the event loop.
RandomBytesCallback(i, buf) ==
    /\ i \in 1..Len(calls)
    /\ calls[i].randomBytes # <<>>
    /\ LET r == getFilenameCallback(calls[i].randomBytes[1].cb, Null, buf)
       IN  calls' = [calls EXCEPT ![i].randomBytes = <<>>,
                                  ![i].thrownByRandomBytes = r.threw]
    /\ UNCHANGED <<ctorVars, sdkUploads, removes, sdkDeletes>>

\* The progress handler without its test of event.total.
OnHttpUploadProgress_NoTest(fileSize, total) == total

\* upload.on("httpUploadProgress", event => { if (event.total) ... })
OnHttpUploadProgress(fileSize, total) ==
    IF total # 0 THEN total ELSE fileSize

HttpUploadProgress(i, total) ==
    /\ i \in 1..Len(calls)
    /\ calls[i].pc = "uploading"
    /\ TotalProgress(calls) < MaxProgress
    /\ calls' = [calls EXCEPT
                   ![i].progress = Append(@, total),
                   ![i].fileSize = OnHttpUploadProgress(@, total)]
    /\ UNCHANGED <<ctorVars, sdkUploads, removes, sdkDeletes>>

\* fileSize as one variable shared by all calls: the latest call's.
FileSizeOf_Shared(cs, i) == cs[Len(cs)].fileSize

\* The fileSize the handlers of call i read and write: the variable of that
\* call's own closure.
FileSizeOf(cs, i) == cs[i].fileSize

\* ObjectInfo with key and bucket taken from each other's field.
ObjectInfo_KeyBucketSwapped(res, fileSize) ==
    [ etag |-> res.ETag, location |-> res.Location, key |-> res.Bucket,
      bucket |-> res.Key, size |-> fileSize ]

\* The object info the .then handler builds.
ObjectInfo(res, fileSize) ==
    [ etag |-> res.ETag, location |-> res.Location, key |-> res.Key,
      bucket |-> res.Bucket, size |-> fileSize ]

\* .then(res => callback(null, {...})): the callback returns or throws; a
\* throw rejects the promise the .catch is attached to.
ThenHandler(cs, i, res, throws) ==
    [ cs[i] EXCEPT
        !.res = <<res>>,
        !.cbLog = Append(@, [error |-> Null,
                             info |-> <<ObjectInfo(res, FileSizeOf(cs, i))>>]),
        !.pc = IF throws THEN "rejected" ELSE "done",
        !.err = IF throws THEN CallbackError ELSE @ ]

\* .catch(err => callback(err)); should the callback throw here, the promise
\* chain ends in an unhandled rejection and nothing else runs.
CatchHandler(c) ==
    [ c EXCEPT !.cbLog = Append(@, [error |-> c.err, info |-> <<>>]),
               !.pc = "done" ]

\* upload.promise() resolves: the .then handler runs and, if it rejected the
\* chained promise, the .catch handler after it, in the same turn of the
\* event loop.
UploadResolves(i, res, throws) ==
    /\ i \in 1..Len(calls)
    /\ calls[i].pc = "uploading"
    /\ res \in SdkUploadResponses(sdkUploads[i].params)
    /\ LET c == ThenHandler(calls, i, res, throws)
       IN  calls' = [calls EXCEPT
                       ![i] = IF c.pc = "rejected" THEN CatchHandler(c) ELSE c]
    /\ UNCHANGED <<ctorVars, sdkUploads, removes, sdkDeletes>>

\* upload.promise() rejects: the .then handler is skipped, the .catch handler
\* runs.
UploadRejects(i, err) ==
    /\ i \in 1..Len(calls)
    /\ calls[i].pc = "uploading"
    /\ err \in SdkUploadErrors(sdkUploads[i].params)
    /\ calls' = [calls EXCEPT
                   ![i] = CatchHandler([calls[i] EXCEPT !.pc = "rejected",
                                                        !.err = err])]
    /\ UNCHANGED <<ctorVars, sdkUploads, removes, sdkDeletes>>

\* -------------------------------------------------------------- _removeFile
\* The files the middleware may ask to remove: those a callback was given
\* object info for.
Stored ==
    { [call |-> i, bucket |-> calls[i].cbLog[n].info[1].bucket,
       key |-> calls[i].cbLog[n].info[1].key] :
        <<i, n>> \in { p \in (1..Len(calls)) \X (1..2) :
                         /\ p[2] <= Len(calls[p[1]].cbLog)
                         /\ calls[p[1]].cbLog[p[2]].info # <<>> } }

\* DeleteParams with Bucket and Key taken from each other's field.
DeleteParams_Swapped(file) == [Bucket |-> file.key, Key |-> file.bucket]

DeleteParams(file) == [Bucket |-> file.bucket, Key |-> file.key]

RemoveFile(file) ==
    /\ engine # <<>>
    /\ Len(removes) < MaxRemoves
    /\ file \in Stored
    /\ sdkDeletes' = Append(sdkDeletes,
                            [remove |-> Len(removes) + 1,
                             params |-> DeleteParams(file)])
    /\ removes' = Append(removes,
                         [file |-> file, pc |-> "deleting",
                          err |-> Null, cbLog |-> <<>>])
    /\ UNCHANGED <<ctorVars, calls, sdkUploads>>

\* function (err, data) { if (!err) { callback(null); } callback(err); }
\* A callback that throws inside the if ends the function there.
DeleteCallback(err, throws) ==
    IF ~Falsy(err)
    THEN [cbLog |-> <<err>>, threw |-> FALSE]
    ELSE IF throws
    THEN [cbLog |-> <<Null>>, threw |-> TRUE]
    ELSE [cbLog |-> <<Null, err>>, threw |-> FALSE]

DeleteObjectDone(j, err, throws) ==
    /\ j \in 1..Len(removes)
    /\ removes[j].pc = "deleting"
    /\ LET r == DeleteCallback(err, throws)
       IN  removes' = [removes EXCEPT
                         ![j].cbLog = r.cbLog,
                         ![j].pc = IF r.threw THEN "uncaught" ELSE "done",
                         ![j].err = err]
    /\ UNCHANGED <<ctorVars, calls, sdkUploads, sdkDeletes>>

\* -------------------------------------------------------------------- Spec
\* The state after a factory call that did not throw.
Init ==
    /\ \E factory \in Factories, o \in EngineOpts :
          /\ ctor = <<[factory |-> factory, opts |-> o]>>
          /\ LET b == Build(factory, o)
             IN  /\ thrown = b.thrown
                 /\ clients = b.clients
                 /\ engine = b.engine
                 /\ middleware = b.middleware
    /\ calls = <<>>
    /\ sdkUploads = <<>>
    /\ removes = <<>>
    /\ sdkDeletes = <<>>

Next ==
    \/ \E req \in Reqs : HandleFile(req)
    \/ \E i \in 1..MaxCalls, buf \in RandomBuffers : RandomBytesCallback(i, buf)
    \/ \E i \in 1..MaxCalls, total \in Totals : HttpUploadProgress(i, total)
    \/ \E i \in 1..Len(sdkUploads), throws \in BOOLEAN :
          \E res \in SdkUploadResponses(sdkUploads[i].params) :
             UploadResolves(i, res, throws)
    \/ \E i \in 1..Len(sdkUploads) :
          \E err \in SdkUploadErrors(sdkUploads[i].params) :
             UploadRejects(i, err)
    \/ \E file \in Stored : RemoveFile(file)
    \/ \E j \in 1..MaxRemoves, err \in {Null, "AccessDenied"},
          throws \in BOOLEAN :
             DeleteObjectDone(j, err, throws)

Spec == Init /\ [][Next]_vars

\* Uploads and removals without progress events.  HttpUploadProgress writes
\* progress and fileSize of a call and nothing else, so what is left out
\* changes the reported size only.
NextStore ==
    \/ \E req \in Reqs : HandleFile(req)
    \/ \E i \in 1..MaxCalls, buf \in RandomBuffers : RandomBytesCallback(i, buf)
    \/ \E i \in 1..Len(sdkUploads), throws \in BOOLEAN :
          \E res \in SdkUploadResponses(sdkUploads[i].params) :
             UploadResolves(i, res, throws)
    \/ \E i \in 1..Len(sdkUploads) :
          \E err \in SdkUploadErrors(sdkUploads[i].params) :
             UploadRejects(i, err)
    \/ \E file \in Stored : RemoveFile(file)
    \/ \E j \in 1..MaxRemoves, err \in {Null, "AccessDenied"},
          throws \in BOOLEAN :
             DeleteObjectDone(j, err, throws)

SpecStore == Init /\ [][NextStore]_vars

\* Uploads with their progress events, without removals, on the engine of the
\* default factory.  RemoveFile and DeleteObjectDone leave calls and
\* sdkUploads unchanged, and the wrappers' engines differ from this one in
\* the client's signatureVersion only, which no operation reads.
InitProgress == Init /\ ctor[1].factory = "default"

NextProgress ==
    \/ \E req \in Reqs : HandleFile(req)
    \/ \E i \in 1..MaxCalls, buf \in RandomBuffers : RandomBytesCallback(i, buf)
    \/ \E i \in 1..MaxCalls, total \in Totals : HttpUploadProgress(i, total)
    \/ \E i \in 1..Len(sdkUploads), throws \in BOOLEAN :
          \E res \in SdkUploadResponses(sdkUploads[i].params) :
             UploadResolves(i, res, throws)
    \/ \E i \in 1..Len(sdkUploads) :
          \E err \in SdkUploadErrors(sdkUploads[i].params) :
             UploadRejects(i, err)

SpecProgress == InitProgress /\ [][NextProgress]_vars

\* ------------------------------------------------------------------ claims
RequiredParams == <<"endpoint", "bucket", "apiKeyId", "serviceInstanceId">>

ParamsOf(errors) == [n \in 1..Len(errors) |-> errors[n].param]

\* C2: a factory call throws a list of parameter errors exactly when one of
\* endpoint, bucket, apiKeyId, serviceInstanceId is empty or missing; the
\* list names every empty parameter once, in that order; a call that throws
\* creates no SDK client and returns no engine, and a call that does not
\* throw returns an engine with one client.
C2_ThrowsIffParamEmpty ==
    ctor # <<>> =>
        LET o == ctor[1].opts
            empties == SelectSeq(RequiredParams, LAMBDA p : Falsy(o[p]))
        IN  /\ (thrown # <<>>) <=> (empties # <<>>)
            /\ ParamsOf(thrown) = empties
            /\ thrown # <<>> =>
                  /\ clients = <<>>
                  /\ engine = <<>>
                  /\ middleware = <<>>
            /\ thrown = <<>> => Len(engine) = 1 /\ Len(clients) = 1

C2_Witness ==
    /\ ctor # <<>>
    /\ ctor[1].factory = "cosSingleUpload"
    /\ ctor[1].opts.endpoint = "ep"
    /\ ParamsOf(thrown) = <<"bucket", "serviceInstanceId">>
    /\ clients = <<>>

\* C7: whichever factory built the engine, the SDK client is configured with
\* signatureVersion 'iam' when the caller specified none, and with the
\* caller's value otherwise.
C7_SignatureVersionDefaultsToIam ==
    (ctor # <<>> /\ clients # <<>>) =>
        clients[1].signatureVersion =
            (IF ctor[1].opts.signatureVersion = Undefined
             THEN "iam" ELSE ctor[1].opts.signatureVersion)

\* C1: an engine built without a key option starts every upload with a Key
\* that is one of the hexadecimal names getFilename produces (defined and
\* not empty), and a successful callback reports that same key.
HexNames == { ToHex(buf) : buf \in RandomBuffers }

C1_KeyIsRandomHexName ==
    (engine # <<>> /\ ctor[1].opts.key = Undefined) =>
        \A n \in 1..Len(sdkUploads) :
            /\ sdkUploads[n].params.Key \in HexNames
            /\ \A m \in 1..Len(calls[sdkUploads[n].call].cbLog) :
                  LET c == calls[sdkUploads[n].call].cbLog[m]
                  IN  c.info # <<>> => c.info[1].key = sdkUploads[n].params.Key

\* C3: when the SDK upload succeeded, the callback is called with a null
\* error and an object carrying the ETag, Location, Key and Bucket of the
\* SDK's response; when the SDK upload failed, the callback is called with
\* the SDK's error and no object info, and with nothing else.
C3_CallbackReportsOutcome ==
    \A i \in 1..Len(calls) :
        LET c == calls[i]
        IN  /\ c.pc = "done" => c.cbLog # <<>>
            /\ (c.res # <<>> /\ c.cbLog # <<>>) =>
                  /\ c.cbLog[1].error = Null
                  /\ Len(c.cbLog[1].info) = 1
                  /\ c.cbLog[1].info[1].etag = c.res[1].ETag
                  /\ c.cbLog[1].info[1].location = c.res[1].Location
                  /\ c.cbLog[1].info[1].key = c.res[1].Key
                  /\ c.cbLog[1].info[1].bucket = c.res[1].Bucket
            /\ (c.res = <<>> /\ c.cbLog # <<>>) =>
                  /\ c.err \in SdkErrors
                  /\ c.cbLog = <<[error |-> c.err, info |-> <<>>]>>

C3_Witness ==
    /\ Len(calls) = 2
    /\ calls[1].pc = "done" /\ calls[1].res = <<>>
    /\ calls[1].cbLog = <<[error |-> "AccessDenied", info |-> <<>>]>>
    /\ calls[2].pc = "done" /\ calls[2].res # <<>>
    /\ calls[2].res[1].Key = "k-sdk"
    /\ Len(calls[2].cbLog) = 1
    /\ calls[2].cbLog[1].info[1].key = "k-sdk"

\* C4: a _removeFile call issues exactly one deleteObject, for file.bucket and
\* file.key, and once it has completed the callback has been called exactly
\* once: with null after a successful deletion, with the SDK's error after a
\* failed one.
DeletesOf(j) == { n \in 1..Len(sdkDeletes) : sdkDeletes[n].remove = j }

C4_RemoveCallbackExactlyOnce ==
    \A j \in 1..Len(removes) :
        /\ Cardinality(DeletesOf(j)) = 1
        /\ \A n \in DeletesOf(j) :
              /\ sdkDeletes[n].params.Bucket = removes[j].file.bucket
              /\ sdkDeletes[n].params.Key = removes[j].file.key
        /\ removes[j].pc = "deleting" => removes[j].cbLog = <<>>
        /\ removes[j].pc # "deleting" => removes[j].cbLog = <<removes[j].err>>

\* C5: the size a successful callback reports is the total of the last
\* progress event of that upload that carried a non-zero total, and 0 when
\* the upload had no such event.
RECURSIVE LastNonZeroTotal(_)
LastNonZeroTotal(events) ==
    IF events = <<>> THEN 0
    ELSE IF events[Len(events)] # 0 THEN events[Len(events)]
    ELSE LastNonZeroTotal(SubSeq(events, 1, Len(events) - 1))

C5_SizeIsLastNonZeroTotal ==
    \A i \in 1..Len(calls) :
        \A m \in 1..Len(calls[i].cbLog) :
            calls[i].cbLog[m].info # <<>> =>
                calls[i].cbLog[m].info[1].size =
                    LastNonZeroTotal(calls[i].progress)

C5_Witness ==
    \E i \in 1..Len(calls) :
        /\ calls[i].progress = <<2, 0>>
        /\ calls[i].cbLog # <<>>
        /\ calls[i].cbLog[1].info # <<>>
        /\ calls[i].cbLog[1].info[1].size = 2

\* C6: with a key function configured, every _handleFile call issues exactly
\* one SDK upload, whose Bucket is the bucket given at construction, whose
\* Key is what the key function returns for that request and file, and whose
\* Body is that file's stream.
UploadsOf(i) == { n \in 1..Len(sdkUploads) : sdkUploads[n].call = i }

C6_UploadUsesConfiguredKey ==
    (engine # <<>> /\ ctor[1].opts.key = UserKeyFn) =>
        \A i \in 1..Len(calls) :
            /\ Cardinality(UploadsOf(i)) = 1
            /\ \A n \in UploadsOf(i) :
                  /\ sdkUploads[n].params.Bucket = ctor[1].opts.bucket
                  /\ sdkUploads[n].params.Key =
                        UserKey(calls[i].req, calls[i].file)
                  /\ sdkUploads[n].params.Body = "stream:" \o calls[i].file

C6_Witness ==
    /\ engine # <<>>
    /\ ctor[1].opts.key = UserKeyFn
    /\ Len(calls) = 2
    /\ calls[1].req = "r2" /\ calls[2].req = "r1"
    /\ sdkUploads[1].params.Key = "key:r2/f1"
    /\ sdkUploads[2].params.Key = "key:r1/f2"

\* C8: for a _handleFile call whose upload has settled, the callback has been
\* called exactly once, and at no time more than once, also when the callback
\* throws.
C8_CallbackExactlyOnce ==
    \A i \in 1..Len(calls) :
        /\ Len(calls[i].cbLog) <= 1
        /\ calls[i].pc = "done" => Len(calls[i].cbLog) = 1

\* C9: a _removeFile call given the object info a successful _handleFile
\* reported issues one deleteObject, for the Bucket and Key of the SDK's
\* response to that upload, and none for any other object.
C9_RemoveDeletesReportedObject ==
    \A j \in 1..Len(removes) :
        LET c == calls[removes[j].file.call]
        IN  /\ c.res # <<>>
            /\ Cardinality(DeletesOf(j)) = 1
            /\ \A n \in DeletesOf(j) :
                  /\ sdkDeletes[n].params.Bucket = c.res[1].Bucket
                  /\ sdkDeletes[n].params.Key = c.res[1].Key

C9_Witness ==
    /\ Len(calls) = 2
    /\ calls[1].res # <<>> /\ calls[2].res # <<>>
    /\ calls[1].res[1].Key # calls[2].res[1].Key
    /\ Len(removes) = 1
    /\ removes[1].file.call = 2
    /\ removes[1].pc = "done"
    /\ sdkDeletes[1].params.Key = calls[2].res[1].Key

\* C10: with several _handleFile calls in flight, whatever the order of their
\* progress events and completions, every callback of a call reports the
\* key, bucket, etag and location of that call's own SDK response and the
\* size of that call's own progress events, and an error of that call only.
OwnReport(c, entry) ==
    IF entry.info # <<>>
    THEN /\ c.res # <<>>
         /\ entry.error = Null
         /\ entry.info[1] = [ etag |-> c.res[1].ETag,
                              location |-> c.res[1].Location,
                              key |-> c.res[1].Key,
                              bucket |-> c.res[1].Bucket,
                              size |-> LastNonZeroTotal(c.progress) ]
    ELSE entry.error = c.err

C10_CallsReportOwnUpload ==
    \A i \in 1..Len(calls) :
        \A m \in 1..Len(calls[i].cbLog) : OwnReport(calls[i], calls[i].cbLog[m])

C10_Witness ==
    /\ Len(calls) = 2
    /\ calls[1].progress = <<1>> /\ calls[2].progress = <<2>>
    /\ calls[1].cbLog # <<>> /\ calls[2].cbLog # <<>>
    /\ calls[1].cbLog[1].info # <<>> /\ calls[2].cbLog[1].info # <<>>
    /\ calls[1].cbLog[1].info[1].size = 1
    /\ calls[2].cbLog[1].info[1].size = 2
    /\ calls[1].cbLog[1].info[1].etag # calls[2].cbLog[1].info[1].etag

====
